---- MODULE Spec2Model ----
(***************************************************************************)
(* FluidMix Pro: the mixing calculation engine (calculateMixing), the      *)
(* retrying Gemini service (callWithRetry, getAIRecommendations,           *)
(* extractGuideData) and the App component that ties them together.        *)
(***************************************************************************)
EXTENDS Integers, Sequences, FiniteSets, Bags, TLC

(***************************************************************************)
(* JavaScript numbers.  A number is NaN, +/-Infinity, or s * m * 10^e with *)
(* a four digit decimal significand m in 1000..9999 (m = 0 for zero).     *)
(* The exponent range is that of an IEEE-754 double: results above         *)
(* 1.797e308 become Infinity, results below 2.47e-324 become 0.            *)
(***************************************************************************)
NaN == [k |-> "nan", s |-> 1, m |-> 0, e |-> 0]

Inf(sg) == [k |-> "inf", s |-> sg, m |-> 0, e |-> 0]

Zero == [k |-> "fin", s |-> 1, m |-> 0, e |-> 0]

IsNaN(a) == a.k = "nan"

IsInf(a) == a.k = "inf"

IsZero(a) == a.k = "fin" /\ a.m = 0

Pow10Table == <<1, 10, 100, 1000, 10000, 100000, 1000000, 10000000, 100000000, 1000000000>>

Pow10(n) == Pow10Table[n + 1]

\* number of decimal digits of n, 1 <= n < 2^31
NumDigits(n) ==
  IF n < 100000
  THEN (IF n < 100 THEN (IF n < 10 THEN 1 ELSE 2)
        ELSE IF n < 1000 THEN 3 ELSE IF n < 10000 THEN 4 ELSE 5)
  ELSE (IF n < 10000000 THEN (IF n < 1000000 THEN 6 ELSE 7)
        ELSE IF n < 100000000 THEN 8 ELSE IF n < 1000000000 THEN 9 ELSE 10)

\* s * m1 * 10^e1 with m1 in 1000..9999: Infinity above the largest double,
\* 0 below the smallest
NormRange(sg, m1, e1) ==
  IF e1 > 305 \/ (e1 = 305 /\ m1 > 1797) THEN Inf(sg)
  ELSE IF e1 < -327 \/ (e1 = -327 /\ m1 < 2470) THEN Zero
  ELSE [k |-> "fin", s |-> sg, m |-> m1, e |-> e1]

NormCarry(sg, r, e0) ==
  IF r = 10000 THEN NormRange(sg, 1000, e0 + 1) ELSE NormRange(sg, r, e0)

\* n has d digits: round it to four
NormRound(sg, n, ex, d) ==
  NormCarry(sg,
            IF d > 4 THEN (n + 5 * Pow10(d - 5)) \div Pow10(d - 4) ELSE n * Pow10(4 - d),
            ex + d - 4)

\* n * 10^ex rounded to four significant digits, with overflow and underflow
Norm(sg, n, ex) == IF n = 0 THEN Zero ELSE NormRound(sg, n, ex, NumDigits(n))

\* the literal n * 10^ex
Num(n, ex) == Norm(1, n, ex)

Neg(a) == IF IsNaN(a) \/ IsZero(a) THEN a ELSE [a EXCEPT !.s = -a.s]

Abs(n) == IF n < 0 THEN -n ELSE n

NormSigned(n, ex) == Norm(IF n < 0 THEN -1 ELSE 1, Abs(n), ex)

AddAligned(a, b, lo) ==
  NormSigned(a.s * a.m * Pow10(a.e - lo) + b.s * b.m * Pow10(b.e - lo), lo)

\* a + b
Add(a, b) ==
  IF IsNaN(a) \/ IsNaN(b) THEN NaN
  ELSE IF IsInf(a) THEN (IF IsInf(b) /\ b.s # a.s THEN NaN ELSE a)
  ELSE IF IsInf(b) THEN b
  ELSE IF IsZero(a) THEN b
  ELSE IF IsZero(b) THEN a
  ELSE IF a.e - b.e > 5 THEN a
  ELSE IF b.e - a.e > 5 THEN b
  ELSE AddAligned(a, b, IF a.e < b.e THEN a.e ELSE b.e)

Sub(a, b) == Add(a, Neg(b))

\* a * b
Mul(a, b) ==
  IF IsNaN(a) \/ IsNaN(b) THEN NaN
  ELSE IF (IsZero(a) /\ IsInf(b)) \/ (IsInf(a) /\ IsZero(b)) THEN NaN
  ELSE IF IsInf(a) \/ IsInf(b) THEN Inf(a.s * b.s)
  ELSE IF IsZero(a) \/ IsZero(b) THEN Zero
  ELSE Norm(a.s * b.s, a.m * b.m, a.e + b.e)

\* a / b: x / 0 is +/-Infinity, 0 / 0 and Infinity / Infinity are NaN
Div(a, b) ==
  IF IsNaN(a) \/ IsNaN(b) THEN NaN
  ELSE IF (IsInf(a) /\ IsInf(b)) \/ (IsZero(a) /\ IsZero(b)) THEN NaN
  ELSE IF IsInf(a) \/ IsZero(b) THEN Inf(a.s * b.s)
  ELSE IF IsZero(a) \/ IsInf(b) THEN Zero
  ELSE Norm(a.s * b.s, (a.m * 100000) \div b.m, a.e - b.e - 5)

IsNegative(a) == ~IsNaN(a) /\ ~IsZero(a) /\ a.s = -1

\* a < b, false when either is NaN
Lt(a, b) == ~IsNaN(a) /\ ~IsNaN(b) /\ a # b /\ IsNegative(Sub(a, b))

Eq(a, b) == ~IsNaN(a) /\ ~IsNaN(b) /\ a = b

Le(a, b) == Lt(a, b) \/ Eq(a, b)

Gt(a, b) == Lt(b, a)

\* a || b: a unless a is falsy (0 or NaN)
Or(a, b) == IF IsZero(a) \/ IsNaN(a) THEN b ELSE a

\* Math.max and Math.min: NaN when either argument is NaN
Max(a, b) == IF IsNaN(a) \/ IsNaN(b) THEN NaN ELSE IF Lt(a, b) THEN b ELSE a

Min(a, b) == IF IsNaN(a) \/ IsNaN(b) THEN NaN ELSE IF Lt(b, a) THEN b ELSE a

(***************************************************************************)
(* Math.sqrt, Math.exp, Math.log and Math.pow, computed in fixed point     *)
(* (four decimals) on the significand.                                     *)
(***************************************************************************)
RECURSIVE ISqrtIter(_, _, _)
ISqrtStep(n, lo, hi, mid) ==
  IF mid * mid <= n THEN ISqrtIter(n, mid, hi) ELSE ISqrtIter(n, lo, mid - 1)

\* the largest r in lo..hi with r * r <= n
ISqrtIter(n, lo, hi) == IF lo >= hi THEN lo ELSE ISqrtStep(n, lo, hi, (lo + hi + 1) \div 2)

ISqrtRound(n, r) == IF n - r * r > r THEN r + 1 ELSE r

\* the integer nearest to the square root of n, 0 <= n < 10^9
ISqrt(n) == ISqrtRound(n, ISqrtIter(n, 0, 31623))

\* Math.sqrt(a)
Sqrt(a) ==
  IF IsNaN(a) THEN NaN
  ELSE IF IsZero(a) THEN Zero
  ELSE IF a.s = -1 THEN NaN
  ELSE IF IsInf(a) THEN a
  ELSE IF a.e % 2 = 0 THEN Norm(1, ISqrt(a.m * 10000), (a.e - 4) \div 2)
  ELSE Norm(1, ISqrt(a.m * 100000), (a.e - 5) \div 2)

\* ln(10) and ln(3.162) in units of 10^-4
Ln10Fix == 23026

LnMidFix == 11512

RECURSIVE ExpSeries(_, _, _)
\* sum of the Taylor terms of exp(r / 10^4) from the n-th on, in units of 10^-4
ExpSeries(term, r, n) ==
  IF term = 0 THEN 0
  ELSE term + ExpSeries((term * r + n * 5000) \div (n * 10000), r, n + 1)

\* 10^k0 * exp(r0 / 10^4)
ExpScale(k0, r0) ==
  IF r0 < 0 THEN Norm(1, ExpSeries(10000, r0 + Ln10Fix, 1), k0 - 5)
  ELSE Norm(1, ExpSeries(10000, r0, 1), k0 - 4)

ExpReduce(x, k0) == ExpScale(k0, x - k0 * Ln10Fix + (149 * k0) \div 1000)

\* exp(x / 10^4)
ExpFixed(x) == ExpReduce(x, x \div Ln10Fix)

\* a in units of 10^-4, for |a| < 1000
ToFixed(a) ==
  a.s * (IF a.e + 4 >= 0 THEN a.m * Pow10(a.e + 4)
         ELSE IF a.e + 4 < -4 THEN 0
         ELSE (a.m + Pow10(-(a.e + 4)) \div 2) \div Pow10(-(a.e + 4)))

\* Math.exp(a)
Exp(a) ==
  IF IsNaN(a) THEN NaN
  ELSE IF IsInf(a) THEN (IF a.s = 1 THEN a ELSE Zero)
  ELSE IF IsZero(a) THEN Num(1, 0)
  ELSE IF a.e >= 0 THEN (IF a.s = 1 THEN Inf(1) ELSE Zero)
  ELSE ExpFixed(ToFixed(a))

RECURSIVE AtanhSeries(_, _, _)
\* sum of p / n + p z^2 / (n + 2) + ... in units of 10^-4
AtanhSeries(p, z2, n) ==
  IF p = 0 THEN 0
  ELSE (2 * p + n) \div (2 * n) + AtanhSeries((p * z2 + 5000) \div 10000, z2, n + 2)

LnFromZ(z) == LnMidFix + 2 * AtanhSeries(z, (z * z + 5000) \div 10000, 1)

\* ln(m / 1000) in units of 10^-4, 1000 <= m <= 9999
LnFix(m) == LnFromZ(((m - 3162) * 20000 + (m + 3162)) \div (2 * (m + 3162)))

\* Math.log(a)
Log(a) ==
  IF IsNaN(a) THEN NaN
  ELSE IF IsZero(a) THEN Inf(-1)
  ELSE IF a.s = -1 THEN NaN
  ELSE IF IsInf(a) THEN a
  ELSE NormSigned(LnFix(a.m) + (a.e + 3) * Ln10Fix - (149 * (a.e + 3)) \div 1000, -4)

\* Math.pow(a, p) for a finite, non-zero exponent p
Pow(a, p) ==
  IF IsNaN(a) THEN NaN
  ELSE IF IsZero(a) THEN (IF p.s = -1 THEN Inf(1) ELSE Zero)
  ELSE IF p = Num(2, 0) THEN Mul(a, a)
  ELSE IF a.s = -1 THEN NaN
  ELSE IF IsInf(a) THEN (IF p.s = -1 THEN Zero ELSE a)
  ELSE Exp(Mul(p, Log(a)))

(***************************************************************************)
(* calculateMixing.  calculateMixingLocals evaluates the body and keeps     *)
(* every local; calculateMixing is the returned record.  divisors lists,   *)
(* in source order, the right operand of every division whose divisor is   *)
(* not a numeric literal, on the path taken.                               *)
(***************************************************************************)
g == Num(981, -2)

waterDensity == Num(1000, 0)

waterViscosity == Num(1, -3)

PI == Num(3142, -3)

\* momentumRegime with the thresholds taken inclusively
momentumRegimeInclusive(momentumRatio) ==
  IF Le(momentumRatio, Num(16, -2)) THEN "Low"
  ELSE IF Le(Num(24, -2), momentumRatio) THEN "High"
  ELSE "Intermediate"

\* the regime label of the returned record
momentumRegime(momentumRatio) ==
  IF Lt(momentumRatio, Num(16, -2)) THEN "Low"
  ELSE IF Gt(momentumRatio, Num(24, -2)) THEN "High"
  ELSE "Intermediate"

\* mixerCoV = Math.min(1.0, Math.max(0.0001, mixerCoV))
clampCoV(mixerCoV) == Min(Num(1, 0), Max(Num(1, -4), mixerCoV))

\* const LD = (availableLength || 1) / Dh
lengthToDiameter(availableLength, Dh) == Div(Or(availableLength, Num(1, 0)), Dh)

\* lines 16-20: the safeguards and the total injection flow
locals1(input) ==
  [ d |-> Max(Or(input.dimension, Num(1, -3)), Num(1, -3)),
    h |-> Max(Or(input.depth, Num(1, -3)), Num(1, -3)),
    Q_m3h |-> Max(Or(input.flowRate, Num(1, 0)), Num(1, 0)),
    totalInjLh |-> Add(Or(input.chemicalFlow, Zero), Or(input.dilutionWaterFlow, Zero)),
    isPipe |-> input.conduitType = "PIPE",
    isCircular |-> input.conduitType = "PIPE" /\ input.conduitShape = "CIRCULAR",
    model |-> IF input.mixerModel \in {"KENICS_KM", "HEV", "STM"}
              THEN input.mixerModel ELSE "default" ]

\* lines 21-41: area, and the divisors of the injection blend and of Dh
locals2(input, c) ==
  c @@
  [ totalInjM3s |-> Div(c.totalInjLh, Num(3600000, 0)),
    injDivisor |-> Or(c.totalInjLh, Num(1, 0)),
    area |-> IF c.isCircular THEN Mul(PI, Pow(Div(c.d, Num(2, 0)), Num(2, 0)))
             ELSE Mul(c.d, c.h),
    perimeter |-> IF c.isPipe THEN Add(c.d, c.h) ELSE Add(c.d, Mul(Num(2, 0), c.h)) ]

\* lines 23-45: the injected stream, Dh, alpha
locals3(input, c) ==
  c @@
  [ injDensity |->
      Div(Add(Mul(Or(input.chemicalFlow, Zero), Or(input.chemicalDensity, Num(1000, 0))),
              Mul(Or(input.dilutionWaterFlow, Zero), waterDensity)),
          c.injDivisor),
    injVisc |->
      Exp(Div(Add(Mul(Or(input.chemicalFlow, Zero),
                      Log(Or(input.chemicalViscosity, Num(1, -6)))),
                  Mul(Or(input.dilutionWaterFlow, Zero),
                      Log(Or(waterViscosity, Num(1, -6))))),
              c.injDivisor)),
    Dh |-> IF c.isCircular THEN c.d
           ELSE IF c.isPipe THEN Div(Mul(Mul(Num(2, 0), c.d), c.h), c.perimeter)
           ELSE Div(Mul(Num(4, 0), c.area), c.perimeter),
    areaDivisor |-> Or(c.area, Num(1, -6)),
    viscosityDivisor |-> Or(input.viscosity, Num(1, -6)),
    alpha |-> Div(Mul(c.Q_m3h, Num(1000, 0)), c.injDivisor) ]

\* lines 43-83: velocity, LD, FD and Lm of the chosen mixer, decay, tCoV, nozzles
locals4(input, c) ==
  c @@
  [ velocity |-> Div(Div(c.Q_m3h, Num(3600, 0)), c.areaDivisor),
    LD |-> lengthToDiameter(input.availableLength, c.Dh),
    FD |-> CASE c.model = "KENICS_KM" -> Num(18, -1)
             [] c.model = "HEV" -> Num(6, -1)
             [] c.model = "STM" -> Num(415, -2)
             [] OTHER -> Num(2, -2),
    Lm |-> CASE c.model = "KENICS_KM" -> Mul(Mul(input.numElements, Num(15, -1)), c.Dh)
             [] c.model = "HEV" -> Mul(input.numElements, c.Dh)
             [] c.model = "STM" -> Mul(Mul(input.numElements, Num(8, -1)), c.Dh)
             [] OTHER -> input.availableLength,
    headlossDivisor |-> Mul(Mul(Num(2, 0), g), c.Dh),
    decay |-> IF c.isPipe THEN Mul(Num(75, -2), Sqrt(Num(2, -2))) ELSE Num(6, -1),
    tCoV |-> Or(input.targetCoV, Num(5, -2)),
    nozzles |-> IF input.injectionType = "TWIN" THEN Num(2, 0) ELSE Num(1, 0),
    nozzleArea |-> Mul(PI, Pow(Num(125, -4), Num(2, 0))) ]

\* lines 44-84: Re, headloss in metres, the jet velocity, two more divisors
locals5(input, c) ==
  c @@
  [ Re |-> Div(Mul(Mul(input.density, c.velocity), c.Dh), c.viscosityDivisor),
    headlossM |-> Div(Mul(Mul(c.FD, c.Lm), Pow(c.velocity, Num(2, 0))), c.headlossDivisor),
    gDivisor |-> Or(Mul(Mul(input.viscosity, c.area), c.Lm), Num(1, -9)),
    decayDivisor |-> Or(c.decay, Num(1, -1)),
    uInj |-> Div(Div(c.totalInjM3s, c.nozzles), c.nozzleArea),
    momentumDivisor |-> Or(Mul(c.velocity, c.Dh), Num(1, -6)) ]

\* lines 54-84: the correlation of the chosen mixer, headloss in kPa, momentum
locals6(input, c) ==
  c @@
  [ rawCoV |->
      CASE c.model = "KENICS_KM" ->
             Mul(Mul(IF input.injectionType = "SINGLE" THEN Num(96, -2) ELSE Num(38, -2),
                     Pow(c.Re, Neg(Num(1, -1)))),
                 Pow(input.numElements, Neg(Num(19, -1))))
        [] c.model = "HEV" ->
             Mul(Mul(Num(315, -1), Pow(c.Re, Neg(Num(2, -1)))),
                 Pow(input.numElements, Neg(Num(17, -1))))
        [] c.model = "STM" ->
             Mul(Mul(Num(29, -2), Pow(c.Re, Neg(Num(2, -1)))),
                 Pow(input.numElements, Neg(Num(6, -1))))
        [] OTHER ->
             Mul(Mul(Num(2, 0), Sqrt(c.alpha)),
                 Exp(Mul(Mul(Neg(Num(75, -2)), Sqrt(c.FD)), c.LD))),
    headlossKpa |-> Div(Mul(Mul(c.headlossM, input.density), g), Num(1000, 0)),
    momentumRatio |->
      Mul(Sqrt(Div(c.injDensity, input.density)),
          Div(Mul(c.uInj, Num(25, -3)), c.momentumDivisor)) ]

\* lines 73-76: the clamp and the G value
locals7(input, c) ==
  c @@
  [ mixerCoV |-> clampCoV(c.rawCoV),
    gValue |-> Sqrt(Div(Mul(Mul(c.headlossKpa, Num(1000, 0)), Div(c.Q_m3h, Num(3600, 0))),
                        c.gDivisor)) ]

\* lines 80, 89: mixerCoV <= tCoV
locals8(input, c) == c @@ [ isCompliant |-> Le(c.mixerCoV, c.tCoV) ]

\* line 80
locals9(input, c) ==
  c @@
  [ mixingDistanceNeeded |->
      IF c.isCompliant THEN c.Lm
      ELSE Add(c.Lm, Mul(Div(Log(Div(c.mixerCoV, c.tCoV)), c.decayDivisor), c.Dh)) ]

\* lines 88-90, and the divisors of the path taken
locals10(input, c) ==
  c @@
  [ mixingTimeNeeded |-> Div(c.mixingDistanceNeeded, c.velocity),
    viscosityRatio |-> Div(c.injVisc, input.viscosity),
    divisors |->
      <<c.injDivisor, c.injDivisor>>
      \o (IF c.isCircular THEN <<>> ELSE <<c.perimeter>>)
      \o <<c.areaDivisor, c.viscosityDivisor, c.injDivisor, c.Dh, c.headlossDivisor,
           c.gDivisor>>
      \o (IF c.isCompliant THEN <<>> ELSE <<c.tCoV, c.decayDivisor>>)
      \o <<c.nozzles, c.nozzleArea, input.density, c.momentumDivisor, input.viscosity,
           c.velocity, c.velocity>> ]

calculateMixingLocals(input) ==
  locals10(input, locals9(input, locals8(input, locals7(input, locals6(input,
    locals5(input, locals4(input, locals3(input, locals2(input,
      locals1(input))))))))))

\* the return statement
returned(input, c) ==
  [ velocity |-> c.velocity, reynoldsNumber |-> c.Re,
    momentumRatio |-> c.momentumRatio,
    momentumRegime |-> momentumRegime(c.momentumRatio),
    mixerCoV |-> c.mixerCoV, viscosityRatio |-> c.viscosityRatio,
    injectedViscosity |-> c.injVisc, injectedDensity |-> c.injDensity,
    totalInjectionFlow |-> c.totalInjLh,
    isCompliant |-> c.isCompliant,
    isTimeCompliant |-> Le(c.mixingTimeNeeded, input.targetMixingTime),
    mixingDistanceNeeded |-> c.mixingDistanceNeeded,
    mixingTimeNeeded |-> c.mixingTimeNeeded,
    headloss |-> c.headlossKpa, headlossMeters |-> c.headlossM, gValue |-> c.gValue,
    limeSaturationLimit |-> Num(1500, 0), dissolvedAtTarget |-> Num(100, 0),
    timeTo95Dissolution |-> Num(5, 0), distanceTo95Dissolution |-> Num(5, 0),
    suggestedOrificeDiameter |-> Num(15, 0),
    manufacturerNotes |-> "Standard BHR quill recommendations.",
    hydraulicDiameter |-> c.Dh, wettedArea |-> c.area ]

calculateMixing(input) == returned(input, calculateMixingLocals(input))

\* the inputs the App starts from
initialInputs ==
  [ conduitType |-> "PIPE", conduitShape |-> "CIRCULAR", mixerModel |-> "NONE",
    numElements |-> Num(4, 0), flowRate |-> Num(1500, 0), dimension |-> Num(8, -1),
    depth |-> Num(6, -1), availableLength |-> Num(10, 0), viscosity |-> Num(1, -3),
    density |-> Num(1000, 0), chemicalType |-> "Ferric Chloride",
    chemicalDose |-> Num(1, 0), chemicalFlow |-> Num(10, 0),
    chemicalDensity |-> Num(1450, 0), chemicalViscosity |-> Num(15, -3),
    dilutionWaterFlow |-> Num(200, 0), targetCoV |-> Num(5, -2),
    targetMixingTime |-> Num(10, 0), injectionType |-> "SINGLE",
    pitchRatio |-> "PR_1_5", waterTemperature |-> Num(15, 0) ]

(***************************************************************************)
(* services/gemini.ts.  A call is one invocation of getAIRecommendations   *)
(* or extractGuideData: the position of its callWithRetry loop, and once   *)
(* it has settled the state and value of the promise it returned.          *)
(***************************************************************************)
maxRetries == 3

NoError == [msg429 |-> FALSE, status |-> 0, id |-> 0]

\* const isRateLimit = error?.message?.includes('429') || error?.status === 429
isRateLimit(error) == error.msg429 \/ error.status = 429

\* what one await of fn() can produce: a response, or a rejection
Outcomes ==
  {[ok |-> TRUE, text |-> t, msg429 |-> FALSE, status |-> 200] : t \in {"narrative", ""}}
  \cup {[ok |-> FALSE, text |-> "", msg429 |-> TRUE, status |-> 0],
        [ok |-> FALSE, text |-> "", msg429 |-> FALSE, status |-> 429],
        [ok |-> FALSE, text |-> "", msg429 |-> FALSE, status |-> 500]}

newCall(fn) ==
  [fn |-> fn, pc |-> "try", i |-> 0, attempts |-> 0, waits |-> <<>>,
   lastError |-> NoError, thrown |-> NoError, response |-> "", value |-> ""]

RECURSIVE Pow2(_)
Pow2(n) == IF n = 0 THEN 1 ELSE 2 * Pow2(n - 1)

\* the error caught on this attempt; id is the number of the attempt
caught(c, o) == [msg429 |-> o.msg429, status |-> o.status, id |-> c.attempts + 1]

\* catch block: setTimeout(resolve, Math.pow(2, i) * 1000); continue
backoff(c, error) ==
  [c EXCEPT !.pc = "backoff", !.attempts = @ + 1, !.lastError = error,
            !.waits = Append(@, Pow2(c.i) * 1000)]

\* catch block: throw error
rethrow(c, error) ==
  [c EXCEPT !.pc = "threw", !.attempts = @ + 1, !.lastError = error, !.thrown = error]

\* callWithRetry waiting after the last attempt as well
callWithRetryWaitsOnLast(c, o) ==
  IF o.ok
  THEN [c EXCEPT !.pc = "returned", !.attempts = @ + 1, !.response = o.text]
  ELSE IF c.i < maxRetries /\ isRateLimit(caught(c, o)) THEN backoff(c, caught(c, o))
  ELSE rethrow(c, caught(c, o))

\* callWithRetry retrying whatever the failure
callWithRetryAnyFailure(c, o) ==
  IF o.ok
  THEN [c EXCEPT !.pc = "returned", !.attempts = @ + 1, !.response = o.text]
  ELSE IF c.i < maxRetries - 1 THEN backoff(c, caught(c, o))
  ELSE rethrow(c, caught(c, o))

\* one pass of the loop body of callWithRetry, once the awaited fn() settles
\* with outcome o: return the response, wait and continue, or throw
callWithRetry(c, o) ==
  IF o.ok
  THEN [c EXCEPT !.pc = "returned", !.attempts = @ + 1, !.response = o.text]
  ELSE IF c.i < maxRetries - 1 /\ isRateLimit(caught(c, o)) THEN backoff(c, caught(c, o))
  ELSE rethrow(c, caught(c, o))

\* the timer of the backoff fires: continue with i++, or leave the loop
continueLoop(c) ==
  IF c.i + 1 < maxRetries
  THEN [c EXCEPT !.pc = "try", !.i = c.i + 1]
  ELSE [c EXCEPT !.pc = "threw", !.i = c.i + 1, !.thrown = c.lastError]

\* getAIRecommendations without its catch block
getAIRecommendationsNoCatch(c) ==
  IF c.pc = "returned"
  THEN [c EXCEPT !.pc = "fulfilled",
                 !.value = IF c.response # "" THEN c.response ELSE "No audit available."]
  ELSE [c EXCEPT !.pc = "rejected"]

\* the try/catch of getAIRecommendations around callWithRetry
getAIRecommendations(c) ==
  IF c.pc = "returned"
  THEN [c EXCEPT !.pc = "fulfilled",
                 !.value = IF c.response # "" THEN c.response ELSE "No audit available."]
  ELSE [c EXCEPT !.pc = "fulfilled", !.value = "Audit generation failed."]

\* the try/catch of extractGuideData around callWithRetry
extractGuideData(c) ==
  IF c.pc = "returned"
  THEN [c EXCEPT !.pc = "fulfilled",
                 !.value = IF c.response # "" THEN c.response ELSE "Guide synced."]
  ELSE [c EXCEPT !.pc = "fulfilled", !.value = "Extraction failed."]

\* the call after its awaited fn() settled with outcome o
settle(c, o) ==
  LET r == callWithRetry(c, o)
  IN  IF r.pc = "backoff" THEN r
      ELSE IF c.fn = "getAIRecommendations" THEN getAIRecommendations(r)
      ELSE extractGuideData(r)

\* the call after its backoff timer fired
resume(c) ==
  LET r == continueLoop(c)
  IN  IF r.pc = "try" THEN r
      ELSE IF c.fn = "getAIRecommendations" THEN getAIRecommendations(r)
      ELSE extractGuideData(r)

InFlight(c) == c.pc \in {"try", "backoff"}

(***************************************************************************)
(* Bounds                                                                  *)
(***************************************************************************)
\* calls started in one behaviour
MaxCalls == 2

\* largest element count entered
MaxElements == 2

\* fields of the initial input record changed in an evaluated record
MaxChanged == 3

(***************************************************************************)
(* The App component                                                       *)
(***************************************************************************)
VARIABLES inputs, results, pc, aiAnalysis, isAnalyzing, calls

vars == <<inputs, results, pc, aiAnalysis, isAnalyzing, calls>>

\* handleInputChange without the branch for conduitType
handleInputChangeFieldOnly(prev, field, value) == [prev EXCEPT ![field] = value]

\* setInputs(prev => ...) of handleInputChange
handleInputChange(prev, field, value) ==
  LET next == [prev EXCEPT ![field] = value]
  IN  IF field = "conduitType"
      THEN [next EXCEPT !.mixerModel = "NONE",
                        !.conduitShape = IF value = "PIPE" THEN "CIRCULAR"
                                         ELSE "RECTANGULAR"]
      ELSE next

\* what the controls of the form pass to handleInputChange
FormEvents ==
  {<<"conduitType", t>> : t \in {"PIPE", "CHANNEL"}}
  \cup {<<"mixerModel", m>> : m \in {"NONE", "KENICS_KM", "HEV", "STM"}}
  \cup {<<"numElements", n>> : n \in {Zero, initialInputs.numElements}}
  \cup {<<"flowRate", v>> : v \in {Zero, initialInputs.flowRate}}
  \cup {<<"dimension", v>> : v \in {Zero, initialInputs.dimension}}
  \cup {<<"depth", v>> : v \in {Zero, initialInputs.depth}}

\* the Depth box is rendered for a channel or a rectangular duct only
Rendered(field) ==
  field = "depth" => (inputs.conduitType = "CHANNEL" \/ inputs.conduitShape = "RECTANGULAR")

\* the input records useMemo is applied to: every combination of the values
\* the form events set
FormInputs ==
  {[initialInputs EXCEPT !.conduitType = t, !.conduitShape = sh,
                         !.mixerModel = m, !.numElements = n, !.flowRate = q,
                         !.dimension = w, !.depth = z] :
     t \in {"PIPE", "CHANNEL"}, sh \in {"CIRCULAR", "RECTANGULAR"},
     m \in {"NONE", "KENICS_KM", "HEV", "STM"},
     n \in {Zero, initialInputs.numElements}, q \in {Zero, initialInputs.flowRate},
     w \in {Zero, initialInputs.dimension}, z \in {Zero, initialInputs.depth}}

\* const results = useMemo(() => calculateMixing(inputs), [inputs])
memo == [i \in FormInputs |-> calculateMixing(i)]

useMemo(i) == memo[i]

Init ==
  /\ inputs = initialInputs
  /\ results = useMemo(inputs)
  /\ pc = "returned"
  /\ aiAnalysis = ""
  /\ isAnalyzing = FALSE
  /\ calls = EmptyBag

\* the form with its controls disabled while an audit runs
HandleInputChangeWhenIdle(field, value) ==
  /\ ~isAnalyzing
  /\ Rendered(field)
  /\ inputs' = handleInputChange(inputs, field, value)
  /\ results' = useMemo(inputs')
  /\ UNCHANGED <<pc, aiAnalysis, isAnalyzing, calls>>

\* a control of the form fires: the state is set and the component renders
HandleInputChange(field, value) ==
  /\ Rendered(field)
  /\ inputs' = handleInputChange(inputs, field, value)
  /\ results' = useMemo(inputs')
  /\ UNCHANGED <<pc, aiAnalysis, isAnalyzing, calls>>

\* the Run Audit button, up to the await
RunAudit ==
  /\ BagCardinality(calls) < MaxCalls
  /\ isAnalyzing' = TRUE
  /\ calls' = calls (+) SetToBag({newCall("getAIRecommendations")})
  /\ UNCHANGED <<inputs, results, pc, aiAnalysis>>

\* the model call of an audit settles; when that ends the request, the rest
\* of the click handler runs: setAiAnalysis(...); setIsAnalyzing(false)
AuditSettles(c, o) ==
  /\ BagIn(c, calls) /\ c.pc = "try"
  /\ LET r == settle(c, o)
     IN  IF InFlight(r)
         THEN /\ calls' = (calls (-) SetToBag({c})) (+) SetToBag({r})
              /\ UNCHANGED <<aiAnalysis, isAnalyzing>>
         ELSE /\ calls' = calls (-) SetToBag({c})
              /\ IF r.pc = "fulfilled"
                 THEN aiAnalysis' = r.value /\ isAnalyzing' = FALSE
                 ELSE UNCHANGED <<aiAnalysis, isAnalyzing>>
  /\ UNCHANGED <<inputs, results, pc>>

\* the setTimeout of a backoff fires
BackoffElapses(c) ==
  /\ BagIn(c, calls) /\ c.pc = "backoff"
  /\ calls' = (calls (-) SetToBag({c})) (+) SetToBag({resume(c)})
  /\ UNCHANGED <<inputs, results, pc, aiAnalysis, isAnalyzing>>

Next ==
  \/ \E ev \in FormEvents : HandleInputChange(ev[1], ev[2])
  \/ RunAudit
  \/ \E c \in BagToSet(calls), o \in Outcomes : AuditSettles(c, o)
  \/ \E c \in BagToSet(calls) : BackoffElapses(c)

Spec == Init /\ [][Next]_vars

(***************************************************************************)
(* The service on its own: callers of either exported function keep the    *)
(* promises they were given.                                               *)
(***************************************************************************)
CallService(fn) ==
  /\ BagCardinality(calls) < MaxCalls
  /\ calls' = calls (+) SetToBag({newCall(fn)})
  /\ UNCHANGED <<inputs, results, pc, aiAnalysis, isAnalyzing>>

FnSettles(c, o) ==
  /\ BagIn(c, calls) /\ c.pc = "try"
  /\ calls' = (calls (-) SetToBag({c})) (+) SetToBag({settle(c, o)})
  /\ UNCHANGED <<inputs, results, pc, aiAnalysis, isAnalyzing>>

NextGemini ==
  \/ \E fn \in {"getAIRecommendations", "extractGuideData"} : CallService(fn)
  \/ \E c \in BagToSet(calls), o \in Outcomes : FnSettles(c, o)
  \/ \E c \in BagToSet(calls) : BackoffElapses(c)

SpecGemini == Init /\ [][NextGemini]_vars

(***************************************************************************)
(* The engine on its own: calculateMixing applied to input records that    *)
(* differ from the initial record in at most MaxChanged fields.            *)
(***************************************************************************)
InputAlternatives ==
  {<<"conduitType", "CHANNEL">>, <<"conduitShape", "RECTANGULAR">>,
   <<"injectionType", "TWIN">>}
  \cup {<<"mixerModel", m>> : m \in {"KENICS_KM", "HEV", "STM"}}
  \cup {<<"numElements", Num(n, 0)>> : n \in 0..MaxElements}
  \cup {<<"flowRate", v>> : v \in {Zero, Num(200, 0), Num(1, 308)}}
  \cup {<<"dimension", v>> : v \in {Zero, Num(5, -2)}}
  \cup {<<"availableLength", v>> : v \in {Zero, Num(5, -1)}}
  \cup {<<"chemicalFlow", v>> : v \in {Zero, Num(830, 0), Num(1246, 0)}}
  \cup {<<f, Zero>> : f \in {"depth", "viscosity", "density", "dilutionWaterFlow",
                              "chemicalDensity", "chemicalViscosity", "targetCoV",
                              "targetMixingTime"}}

RECURSIVE InputsWithin(_)
InputsAround(prev) ==
  prev \cup {[r EXCEPT ![a[1]] = a[2]] : r \in prev, a \in InputAlternatives}

InputsWithin(k) == IF k = 0 THEN {initialInputs} ELSE InputsAround(InputsWithin(k - 1))

InputSpace == InputsWithin(MaxChanged)

InitCalc ==
  /\ inputs \in InputSpace
  /\ results = useMemo(initialInputs)
  /\ pc = "called"
  /\ aiAnalysis = ""
  /\ isAnalyzing = FALSE
  /\ calls = EmptyBag

\* calculateMixing(inputs) returns
Evaluate ==
  /\ pc = "called"
  /\ pc' = "returned"
  /\ results' = calculateMixing(inputs)
  /\ UNCHANGED <<inputs, aiAnalysis, isAnalyzing, calls>>

NextCalc == Evaluate

SpecCalc == InitCalc /\ [][NextCalc]_vars

(***************************************************************************)
(* Properties of the engine, checked under SpecCalc                        *)
(***************************************************************************)
Returned == pc = "returned"

\* C1: for every input record with non-negative numeric fields, the returned
\* mixerCoV lies in the closed interval [0.0001, 1.0].
C1_MixerCoVInRange ==
  Returned => (Le(Num(1, -4), results.mixerCoV) /\ Le(results.mixerCoV, Num(1, 0)))

\* C6: every division performed by calculateMixing has a strictly positive
\* divisor, also when numeric fields of the input record are zero.
C6_DivisorsPositive ==
  Returned =>
    \A n \in DOMAIN calculateMixingLocals(inputs).divisors :
      Gt(calculateMixingLocals(inputs).divisors[n], Zero)

\* C7: the returned momentumRegime is "Low" exactly when momentumRatio < 0.16,
\* "High" exactly when momentumRatio > 0.24 and "Intermediate" otherwise, so
\* that 0.16 and 0.24 are both "Intermediate"; it is always one of the three.
C7_RegimeThresholds ==
  Returned =>
    /\ results.momentumRegime \in {"Low", "Intermediate", "High"}
    /\ (results.momentumRegime = "Low") <=> Lt(results.momentumRatio, Num(16, -2))
    /\ (results.momentumRegime = "High") <=> Gt(results.momentumRatio, Num(24, -2))
    /\ results.momentumRatio \in {Num(16, -2), Num(24, -2)}
         => results.momentumRegime = "Intermediate"

\* a record was evaluated whose momentumRatio is exactly 0.16
C7_AtLowerThreshold ==
  /\ Returned
  /\ results.momentumRatio = Num(16, -2)
  /\ results.momentumRegime = "Intermediate"

\* the lengths compared with the available length of the evaluated record
Lengths == {Zero, Num(5, -1), Num(10, 0)}

\* C8: for mixerModel NONE, all else fixed, mixerCoV at the longer of two
\* available lengths (the shorter may be 0) is not greater than at the shorter.
C8_MonotoneInLength ==
  (Returned /\ inputs.mixerModel = "NONE") =>
    \A L1 \in Lengths :
      Le(L1, inputs.availableLength) =>
        ~Gt(results.mixerCoV, calculateMixing([inputs EXCEPT !.availableLength = L1]).mixerCoV)

\* C9: when chemicalFlow and dilutionWaterFlow are both zero, the returned
\* injectedDensity is chemicalDensity and injectedViscosity is
\* chemicalViscosity.
C9_ZeroFlowIsUndilutedChemical ==
  (Returned /\ IsZero(inputs.chemicalFlow) /\ IsZero(inputs.dilutionWaterFlow)) =>
    /\ results.injectedDensity = inputs.chemicalDensity
    /\ results.injectedViscosity = inputs.chemicalViscosity

(***************************************************************************)
(* Properties of the service, checked under SpecGemini                     *)
(***************************************************************************)
\* the waits of the retry policy as the specification lists them, in ms
BackoffSchedule == <<1000, 2000, 4000>>

\* the last attempt of c failed with a rate-limit signal
RateLimitedLast(c) == isRateLimit(c.lastError) /\ c.lastError.id = c.attempts

\* C2 as stated: at most 3 attempts, and every rate-limit failure is followed
\* by the wait the schedule 1 s, 2 s, 4 s gives for it.
C2_WaitAfterEveryRateLimit ==
  \A c \in BagToSet(calls) :
    /\ c.attempts <= 3
    /\ RateLimitedLast(c) => c.waits = SubSeq(BackoffSchedule, 1, c.attempts)

\* C2: at most 3 attempts are made; the first rate-limit failure is followed
\* by a wait of 1 s and the second by a wait of 2 s; the third is rethrown
\* without a wait, so a wait of 4 s never occurs.
C2_ThreeAttemptsTwoWaits ==
  \A c \in BagToSet(calls) :
    /\ c.attempts <= 3
    /\ Len(c.waits) <= 2
    /\ c.waits = SubSeq(BackoffSchedule, 1, Len(c.waits))
    /\ (RateLimitedLast(c) /\ c.attempts < 3) => Len(c.waits) = c.attempts
    /\ (RateLimitedLast(c) /\ c.attempts = 3) =>
         (c.waits = <<1000, 2000>> /\ ~InFlight(c) /\ c.thrown = c.lastError)

\* a call gave up after three rate-limited attempts
C2_RateLimitExhausted ==
  \E c \in BagToSet(calls) :
    isRateLimit(c.thrown) /\ c.attempts = 3 /\ c.waits = <<1000, 2000>>

\* C3: a failure that is not a rate-limit signal is rethrown on the attempt
\* it occurs on, first or later: the call ends there, the error thrown is
\* that failure, and the only waits made are those of earlier attempts.
C3_PermanentFailureRethrown ==
  \A c \in BagToSet(calls) :
    (c.lastError # NoError /\ ~isRateLimit(c.lastError)) =>
      /\ ~InFlight(c)
      /\ c.thrown = c.lastError
      /\ c.lastError.id = c.attempts
      /\ Len(c.waits) = c.attempts - 1

\* a permanent failure on the second attempt, after a rate-limited first
C3_PermanentAfterRateLimit ==
  \E c \in BagToSet(calls) :
    /\ c.thrown # NoError /\ ~isRateLimit(c.thrown)
    /\ c.attempts = 2 /\ c.thrown.id = 2 /\ c.waits = <<1000>>

\* the string each exported function returns on failure
Fallback(fn) ==
  IF fn = "getAIRecommendations" THEN "Audit generation failed." ELSE "Extraction failed."

\* C4: a call of getAIRecommendations or extractGuideData never rejects: once
\* it is no longer pending its promise is fulfilled, with the fallback string
\* of its function when callWithRetry threw.
C4_NeverRejects ==
  \A c \in BagToSet(calls) :
    /\ c.pc \in {"try", "backoff", "fulfilled"}
    /\ c.thrown # NoError => (c.pc = "fulfilled" /\ c.value = Fallback(c.fn))
    /\ (c.pc = "fulfilled" /\ c.thrown = NoError) => c.value # Fallback(c.fn)

\* one audit failed permanently and one extraction ran out of attempts, and
\* both promises are fulfilled with their fallback strings
C4_BothFallbacks ==
  \E c, d \in BagToSet(calls) :
    /\ c.fn = "getAIRecommendations" /\ c.thrown # NoError /\ ~isRateLimit(c.thrown)
    /\ c.pc = "fulfilled" /\ c.value = "Audit generation failed."
    /\ d.fn = "extractGuideData" /\ isRateLimit(d.thrown) /\ d.attempts = 3
    /\ d.pc = "fulfilled" /\ d.value = "Extraction failed."

(***************************************************************************)
(* Properties of the App, checked under Spec                               *)
(***************************************************************************)
\* C5: whatever the state of the audit requests, the displayed results are
\* calculateMixing of the current inputs, and while a request is in flight
\* every rendered control of the form still takes its change.
C5_ResultsFollowInputs ==
  /\ results = useMemo(inputs)
  /\ calls # EmptyBag =>
       \A ev \in FormEvents : Rendered(ev[1]) => ENABLED HandleInputChange(ev[1], ev[2])

\* the inputs were changed and recomputed while a request waits in backoff
C5_ChangedDuringBackoff ==
  /\ \E c \in BagToSet(calls) : c.pc = "backoff"
  /\ isAnalyzing
  /\ inputs # initialInputs
  /\ results = calculateMixing(inputs)

\* C10: while a request started by the Run Audit button has not settled,
\* isAnalyzing is true; once none is in flight it is false.
C10_AnalyzingWhileInFlight ==
  isAnalyzing <=> (\E c \in BagToSet(calls) : InFlight(c))

\* what the claim expects of handleInputChange(inputs, field, value)
ExpectedInputs(field, value) ==
  IF field = "conduitType"
  THEN [inputs EXCEPT !.conduitType = value, !.mixerModel = "NONE",
                      !.conduitShape = IF value = "PIPE" THEN "CIRCULAR" ELSE "RECTANGULAR"]
  ELSE [inputs EXCEPT ![field] = value]

\* C11: handleInputChange on conduitType also sets mixerModel to NONE and
\* conduitShape to CIRCULAR for PIPE, RECTANGULAR for CHANNEL; on any other
\* field it changes that field only; so in every state reached through the
\* form, conduitShape is CIRCULAR exactly when conduitType is PIPE.
C11_ShapeFollowsType ==
  /\ (inputs.conduitShape = "CIRCULAR") <=> (inputs.conduitType = "PIPE")
  /\ \A ev \in FormEvents :
       handleInputChange(inputs, ev[1], ev[2]) = ExpectedInputs(ev[1], ev[2])

\* the conduit was a channel, where the depth was set to 0, and is a pipe
\* again, with a mixer chosen afterwards
C11_BackToPipe ==
  /\ inputs.conduitType = "PIPE" /\ inputs.conduitShape = "CIRCULAR"
  /\ IsZero(inputs.depth)
  /\ inputs.mixerModel = "HEV"

====
